---- MODULE Spec2Model ----
(***************************************************************************)
(* A model of apimate: the query-filter DSL (apimate/query.py), its        *)
(* MongoDB translation and paged listing (apimate/mongodb/query.py).       *)
(*                                                                         *)
(* Strings whose characters the code looks at (filter values, which are    *)
(* stringified, parsed as integers, prefixed with "^" ...) are sequences   *)
(* of one-character strings.  Names that the code only compares (field     *)
(* names, operator symbols, class names) are TLA+ strings.                 *)
(***************************************************************************)
EXTENDS Integers, Sequences, FiniteSets, TLC

VARIABLES
    desc,       \* the QueryField objects of the process: id -> [cls, sort, name]
    classes,    \* the schema classes defined so far, in definition order
    last_def,   \* outcome of the last class statement
    req,        \* position of the current request: "idle", "built", "failed"
    query,      \* the SearchQuery instance of the current request
    error,      \* the exception the current request raised
    find_cache, \* MongodbSearchQuery.find (a cached_property) of the instance
    lm,         \* the running list_model call and the store it talks to
    rel,        \* the Relation objects and the running inject_relations call
    rt          \* a record mapping on its way to the store and back

schema_vars == <<desc, classes, last_def>>
query_vars == <<req, query, error, find_cache>>
vars == <<desc, classes, last_def, req, query, error, find_cache, lm, rel, rt>>

(***************************************************************************)
(* Values                                                                  *)
(***************************************************************************)

\* A scalar of a JSON payload or of a filter: a string or an integer.
StrV(s) == [t |-> "str", s |-> s, n |-> 0]
IntV(n) == [t |-> "int", s |-> <<>>, n |-> n]
\* bson.ObjectId(x): the identifier x as a store-native object id.
ObjectId(v) == [t |-> "oid", s |-> v.s, n |-> 0]

DigitChars == <<"0", "1", "2", "3", "4", "5", "6", "7", "8", "9">>

IsDigit(c) == \E i \in 1..Len(DigitChars) : DigitChars[i] = c

DigitOf(c) == (CHOOSE i \in 1..Len(DigitChars) : DigitChars[i] = c) - 1

\* str(n) of a non-negative int
RECURSIVE Digits(_)
Digits(n) ==
    IF n < 10 THEN <<DigitChars[n + 1]>>
    ELSE Digits(n \div 10) \o <<DigitChars[(n % 10) + 1]>>

\* int(s) of a string of decimal digits
RECURSIVE IntOfDigits(_)
IntOfDigits(s) ==
    IF Len(s) = 0 THEN 0
    ELSE 10 * IntOfDigits(SubSeq(s, 1, Len(s) - 1)) + DigitOf(s[Len(s)])

\* repr(v) of a scalar: a string in quotes, an int as its digits
Repr(v) == IF v.t = "str" THEN <<"'">> \o v.s \o <<"'">> ELSE Digits(v.n)

\* ", ".join(repr(x) for x in items)
RECURSIVE JoinRepr(_)
JoinRepr(items) ==
    IF Len(items) = 0 THEN <<>>
    ELSE IF Len(items) = 1 THEN Repr(items[1])
    ELSE Repr(items[1]) \o <<",", " ">> \o JoinRepr(Tail(items))

\* A raw condition: what one key of the filter payload holds, or what
\* parse_value is handed.  t is "scalar" (val), "list" (items), "dict"
\* (entries, in the mapping's order) or "tuple" (sym, val).
Scalar(v) == [t |-> "scalar", val |-> v, items |-> <<>>, entries |-> <<>>, sym |-> ""]
ListC(items) == [t |-> "list", val |-> StrV(<<>>), items |-> items, entries |-> <<>>, sym |-> ""]
DictC(entries) == [t |-> "dict", val |-> StrV(<<>>), items |-> <<>>, entries |-> entries, sym |-> ""]
TupleC(sym, v) == [t |-> "tuple", val |-> v, items |-> <<>>, entries |-> <<>>, sym |-> sym]

\* str(value) as Python computes it for the shapes above
PyStr(c) ==
    IF c.t = "scalar" THEN (IF c.val.t = "str" THEN c.val.s ELSE Digits(c.val.n))
    ELSE IF c.t = "list" THEN <<"[">> \o JoinRepr(c.items) \o <<"]">>
    ELSE <<"?">>

\* Results of the operators that can raise: ok with a value, or the exception.
Ok(v) == [ok |-> TRUE, val |-> v, exc |-> "", inner |-> ""]
Raise(e) == [ok |-> FALSE, val |-> <<>>, exc |-> e, inner |-> ""]

\* The statements after a call: they run on its value, and an exception of
\* the call propagates instead
AndThen(r, F(_)) == IF r.ok THEN F(r.val) ELSE r

\* pydantic's parse_obj_as(int, value): an int stays, a string of decimal
\* digits is converted, anything else is a ValidationError
parse_obj_as_int(c) ==
    IF c.t # "scalar" THEN Raise("ValidationError")
    ELSE IF c.val.t = "int" THEN Ok(c.val)
    ELSE IF Len(c.val.s) > 0 /\ \A i \in 1..Len(c.val.s) : IsDigit(c.val.s[i])
         THEN Ok(IntV(IntOfDigits(c.val.s)))
    ELSE Raise("ValidationError")

(***************************************************************************)
(* Enumerations of apimate/query.py                                        *)
(***************************************************************************)

SortDirection_ASC == 1
SortDirection_DESC == -1
FieldSort_NO == 0
FieldSort_ASC == 1
FieldSort_DESC == 2

\* TextFilterOperation(symbol), OrderFilterOperation(symbol): the member
\* with that value, "" when there is none (the enum raises ValueError)
TextFilterOperation(sym) ==
    CASE sym = "=" -> "EQ"
      [] sym = "!" -> "NEQ"
      [] sym = "^" -> "START"
      [] sym = "$" -> "END"
      [] sym = "%" -> "CONTAIN"
      [] OTHER -> ""

OrderFilterOperation(sym) ==
    CASE sym = "=" -> "EQ"
      [] sym = "!" -> "NEQ"
      [] sym = ">" -> "GT"
      [] sym = ">=" -> "GTE"
      [] sym = "<" -> "LT"
      [] sym = "<=" -> "LTE"
      [] OTHER -> ""

\* Filters: frozen dataclasses, equal when class and all fields are equal.
NoVal == StrV(<<>>)
IdsFilter(values) ==
    [cls |-> "IdsFilter", field |-> "ids", op |-> "", value |-> NoVal, values |-> values]
TextFilter(field, op, value) ==
    [cls |-> "TextFilter", field |-> field, op |-> op, value |-> value, values |-> {}]
IntFilter(field, op, value) ==
    [cls |-> "IntFilter", field |-> field, op |-> op, value |-> value, values |-> {}]
RefFilter(field, value) ==
    [cls |-> "RefFilter", field |-> field, op |-> "", value |-> value, values |-> {}]

(***************************************************************************)
(* Field descriptors                                                       *)
(***************************************************************************)

\* Python truth of an int
Truthy(n) == n # 0

\* IntFlag containment, FieldSort.X in sort: every bit of flag is set in sort
FlagIn(flag, sort) == (sort \div flag) % 2 = 1

\* QueryField.__init__: self.sort = sort or FieldSort.NO; name is unbound
QueryField_init(cls, sort) ==
    [cls |-> cls, sort |-> IF Truthy(sort) THEN sort ELSE FieldSort_NO, name |-> ""]

\* QueryField.can_sort: direction.ASC and direction.DESC are the enum's
\* members reached through the instance, both truthy, whatever direction is.
can_sort(field, direction) ==
    \/ Truthy(SortDirection_ASC) /\ FlagIn(FieldSort_ASC, field.sort)
    \/ Truthy(SortDirection_DESC) /\ FlagIn(FieldSort_DESC, field.sort)

\* TextFilter(field=self.name, op=op, value=value) of QueryField.parse_value:
\* a tuple gives the operator of its symbol, anything else is stringified
\* whole and compared for equality.
QueryField_parse_value(field, c) ==
    AndThen(IF c.t # "tuple" THEN Ok(<<"EQ", c>>)
            ELSE IF TextFilterOperation(c.sym) = "" THEN Raise("ValueError")
            ELSE Ok(<<TextFilterOperation(c.sym), Scalar(c.val)>>),
            LAMBDA ov : Ok(TextFilter(field.name, ov[1], StrV(PyStr(ov[2])))))

\* OrderedQueryField.parse_value with filter_type = IntFilter (the decimal
\* and datetime fields run the same code with another value type).
OrderedQueryField_parse_value(field, c) ==
    AndThen(IF c.t # "tuple" THEN Ok(<<"EQ", c>>)
            ELSE IF OrderFilterOperation(c.sym) = "" THEN Raise("ValueError")
            ELSE Ok(<<OrderFilterOperation(c.sym), Scalar(c.val)>>),
            LAMBDA ov : AndThen(parse_obj_as_int(ov[2]),
                                LAMBDA v : Ok(IntFilter(field.name, ov[1], v))))

\* The characters an identifier string is made of (ID_STRING of
\* apimate/types.py).
HexChars == {"0", "1", "2", "3", "4", "5", "6", "7", "8", "9", "a", "b", "c", "d", "e", "f"}

\* parse_obj_as(constr(regex=ID_STRING), value): a str or an int, as a string,
\* that is an identifier
IsIdString(s) == Len(s) > 0 /\ \A i \in 1..Len(s) : s[i] \in HexChars

parse_obj_as_id(c) ==
    IF c.t = "scalar" /\ IsIdString(PyStr(c)) THEN Ok(StrV(PyStr(c)))
    ELSE Raise("ValidationError")

\* RefQueryField.parse_value: whatever the shape, the value is an identifier
RefQueryField_parse_value(field, c) ==
    AndThen(parse_obj_as_id(c), LAMBDA v : Ok(RefFilter(field.name, ObjectId(v))))

\* field.parse_value(value), dispatched on the descriptor's class
parse_value(field, c) ==
    CASE field.cls = "IntQueryField" -> OrderedQueryField_parse_value(field, c)
      [] field.cls = "RefQueryField" -> RefQueryField_parse_value(field, c)
      [] OTHER -> QueryField_parse_value(field, c)

(***************************************************************************)
(* Schema registration: SearchQueryMeta                                    *)
(***************************************************************************)

\* A Sort: (field, direction), or None
NoSort == [none |-> TRUE, field |-> "", dir |-> 0]
SortOf(f, d) == [none |-> FALSE, field |-> f, dir |-> d]

Range(s) == {s[i] : i \in 1..Len(s)}

EmptyFields == [k \in {} |-> 0]

\* dict.update: the entries of b replace those of a
DictUpdate(a, b) ==
    [k \in DOMAIN a \cup DOMAIN b |-> IF k \in DOMAIN b THEN b[k] ELSE a[k]]

\* The C3 merge of Python's method resolution order; <<0>> at the end marks
\* an inconsistent hierarchy (type() raises TypeError).
RECURSIVE C3Merge(_)
C3Good(live, i) == \A j \in 1..Len(live) : live[i][1] \notin Range(Tail(live[j]))

C3Heads(live) == {i \in 1..Len(live) : C3Good(live, i)}

C3Drop(live, h) ==
    [j \in 1..Len(live) |-> IF live[j][1] = h THEN Tail(live[j]) ELSE live[j]]

C3First(live, good) == live[CHOOSE i \in good : \A j \in good : i <= j][1]

C3Step(live, good, Rest(_)) ==
    IF Len(live) = 0 THEN <<>>
    ELSE IF good = {} THEN <<0>>
    ELSE <<C3First(live, good)>> \o Rest(C3Drop(live, C3First(live, good)))

C3Merge(seqs) ==
    C3Step(SelectSeq(seqs, LAMBDA s : Len(s) > 0),
           C3Heads(SelectSeq(seqs, LAMBDA s : Len(s) > 0)),
           LAMBDA rest : C3Merge(rest))

\* cls.__mro__ of the class that becomes classes[self]
MroOf(cs, self, bases) ==
    <<self>> \o C3Merge([i \in 1..Len(bases) |-> cs[bases[i]].mro] \o <<bases>>)

\* getattr(cls, 'default_sort', default): the first class of the mro whose
\* body assigns default_sort
RECURSIVE LookupDefaultSort(_, _, _)
LookupDefaultSort(cs, mro, default) ==
    IF Len(mro) = 0 THEN default
    ELSE IF cs[mro[1]].has_ds THEN cs[mro[1]].ds
    ELSE LookupDefaultSort(cs, Tail(mro), default)

\* getattr(cls, 'id_type')
RECURSIVE LookupIdType(_, _)
LookupIdType(cs, mro) ==
    IF Len(mro) = 0 THEN "str"
    ELSE IF cs[mro[1]].id_type # "" THEN cs[mro[1]].id_type
    ELSE LookupIdType(cs, Tail(mro))

\* for base in bases: fields.update(base.__fields__)
RECURSIVE MergeBases(_, _, _)
MergeBases(cs, bases, fields) ==
    IF Len(bases) = 0 THEN fields
    ELSE MergeBases(cs, Tail(bases),
                    IF DOMAIN cs[bases[1]].fields # {}
                    THEN DictUpdate(fields, cs[bases[1]].fields) ELSE fields)

\* A mutant of CollectOwn: a name an ancestor registered keeps the
\* ancestor's descriptor
RECURSIVE CollectOwn_keep(_, _)
CollectOwn_keep(ns, fields) ==
    IF Len(ns) = 0 THEN fields
    ELSE CollectOwn_keep(Tail(ns), DictUpdate([k \in {ns[1][1]} |-> ns[1][2]], fields))

\* for key, field in cls.__dict__.items(): fields[key] = field
RECURSIVE CollectOwn(_, _)
CollectOwn(ns, fields) ==
    IF Len(ns) = 0 THEN fields
    ELSE CollectOwn(Tail(ns), DictUpdate(fields, [k \in {ns[1][1]} |-> ns[1][2]]))

\* ... field.name = key, on the descriptor objects themselves
RECURSIVE BindNames(_, _)
BindNames(ns, d) ==
    IF Len(ns) = 0 THEN d
    ELSE BindNames(Tail(ns), [d EXCEPT ![ns[1][2]].name = ns[1][1]])

\* A class statement: bases, the QueryField attributes of the body (ns, in
\* the body's order), whether the body assigns default_sort and to what, and
\* the id_type it assigns ("" when it does not).
ClassDef(bases, ns, has_ds, ds, id_type) ==
    [bases |-> bases, ns |-> ns, has_ds |-> has_ds, ds |-> ds, id_type |-> id_type]

\* SearchQueryMeta.__new__ on the heap d and the classes cs: the heap after
\* it, the class it returns, and the exception it raised ("" for none).
\* cls = super().__new__(...) and the registry the loops of __new__ collect
NewClass(cs, def) ==
    [bases |-> def.bases, ns |-> def.ns, has_ds |-> def.has_ds, ds |-> def.ds,
     id_type |-> def.id_type, mro |-> MroOf(cs, Len(cs) + 1, def.bases),
     fields |-> CollectOwn(def.ns, MergeBases(cs, def.bases, EmptyFields))]

\* if default_sort: ... if not field or not field.can_sort(default_sort[1])
BadDefaultSort(d, fields, default_sort) ==
    /\ ~default_sort.none
    /\ \/ default_sort.field \notin DOMAIN fields
       \/ ~can_sort(d[fields[default_sort.field]], default_sort.dir)

MetaResult(d, d2, cls, default_sort) ==
    IF 0 \in Range(cls.mro) THEN [exc |-> "TypeError", desc |-> d, cls |-> cls]
    ELSE IF BadDefaultSort(d2, cls.fields, default_sort)
    THEN [exc |-> "ValueError", desc |-> d2, cls |-> cls]
    ELSE [exc |-> "", desc |-> d2, cls |-> cls]

MetaFinish(d, cs, ns, cls) ==
    MetaResult(d, BindNames(ns, d), cls,
               LookupDefaultSort(Append(cs, cls), cls.mro, NoSort))

SearchQueryMeta_new(d, cs, def) == MetaFinish(d, cs, def.ns, NewClass(cs, def))

\* cls.default_sort and cls.id_type of a defined class
default_sort_of(cs, c) == LookupDefaultSort(cs, cs[c].mro, NoSort)
id_type_of(cs, c) == LookupIdType(cs, cs[c].mro)

\* class SearchQuery(metaclass=SearchQueryMeta): id_type = str, default_sort = None
SearchQueryDef == ClassDef(<<>>, <<>>, TRUE, NoSort, "str")

\* class MongodbSearchQuery(SearchQuery): id_type = constr(regex=ID_STRING)
MongodbSearchQueryDef == ClassDef(<<1>>, <<>>, FALSE, NoSort, "oid")

\* The heap and the classes after the class statements defs, each of which
\* is accepted
RECURSIVE DefineAll(_, _, _)
ClassesAfter(cs, r) == IF r.exc = "" THEN Append(cs, r.cls) ELSE cs

DefineStep(cs, r, rest, Then(_, _, _)) == Then(r.desc, ClassesAfter(cs, r), rest)

DefineAll(d, cs, defs) ==
    IF Len(defs) = 0 THEN [desc |-> d, classes |-> cs]
    ELSE DefineStep(cs, SearchQueryMeta_new(d, cs, defs[1]), Tail(defs),
                    LAMBDA d2, cs2, rest : DefineAll(d2, cs2, rest))

(***************************************************************************)
(* Requests and their objects                                              *)
(***************************************************************************)

\* The raw filter of a request: None, a JSON object (its entries <<key,
\* condition>> in the payload's order) or another JSON value (a list).
NoFilter == [t |-> "none", entries |-> <<>>]
DictFilter(entries) == [t |-> "dict", entries |-> entries]
ListFilter(items) == [t |-> "list", entries |-> items]

\* The raw sort of a request: None, a string or a JSON list of strings.
NoRawSort == [t |-> "none", s |-> "", items |-> <<>>]
StrSort(s) == [t |-> "str", s |-> s, items |-> <<>>]
ListSort(items) == [t |-> "list", s |-> "", items |-> items]

\* Python truth of the raw filter and of the raw sort
FilterTruthy(f) == f.t # "none" /\ Len(f.entries) > 0
SortTruthy(s) == (s.t = "str" /\ s.s # "") \/ (s.t = "list" /\ Len(s.items) > 0)

\* The limit of a request: omitted, or an integer
NoLimit == [given |-> FALSE, n |-> 0]
LimitOf(n) == [given |-> TRUE, n |-> n]

\* The instance a request builds; cls = 0 when there is none
QueryOf(c, filter, sort, page, limit, with_count) ==
    [cls |-> c, filter |-> filter, sort |-> sort, page |-> page, limit |-> limit,
     with_count |-> with_count]
NoQuery == QueryOf(0, {}, NoSort, 0, 0, FALSE)

\* The raw parameters of a request and how far it got
Request(pc, c, filter, sort, page, limit, with_count) ==
    [pc |-> pc, cls |-> c, filter |-> filter, sort |-> sort, page |-> page,
     limit |-> limit, with_count |-> with_count]
IdleReq == Request("idle", 0, NoFilter, NoRawSort, 0, NoLimit, FALSE)

NoError == [exc |-> "", inner |-> ""]
EmptyCache == [state |-> "empty", val |-> {}, order |-> <<>>]

\* list_model: where the coroutine stands, the documents that match its
\* predicate in the store's natural order, the store calls it has issued,
\* its locals count, cursor and items, the pending exception and the result
NoCount == [none |-> TRUE, n |-> 0]
CountOf(n) == [none |-> FALSE, n |-> n]
NoCursor == [opened |-> FALSE, closed |-> FALSE, sort |-> NoSort, skip |-> 0, limit |-> 0,
             pos |-> 0]
NoResult == [none |-> TRUE, items |-> <<>>, page |-> 0, limit |-> 0, count |-> NoCount]
IdleLm ==
    [pc |-> "idle", docs |-> <<>>, calls |-> <<>>, count |-> NoCount, cursor |-> NoCursor,
     items |-> <<>>, exc |-> "", result |-> NoResult]

\* A Relation object as Relation.__init__ leaves it; the models are kept by
\* id, and a model is known by its id
Relation(id_prop, target_prop) ==
    [id_prop |-> id_prop, target_prop |-> target_prop, ids |-> {}, models |-> {}]

\* The relations of the module, no call running
Relations == <<Relation("a_id", "a"), Relation("b_id", "b")>>
IdleRel ==
    [pc |-> "idle", n |-> 0, relations |-> Relations, batch |-> <<>>, items |-> <<>>,
     loads |-> [r \in 1..Len(Relations) |-> "idle"], lookups |-> <<>>,
     found |-> [r \in 1..Len(Relations) |-> {}]]

\* A value of a record mapping: an atom with its type and its text, a dict
\* with its items, or a list, set or frozenset with its elements
Value(t, s, d, e) == [t |-> t, s |-> s, d |-> d, e |-> e]
Atom(t, s) == Value(t, s, EmptyFields, <<>>)
DictV(d) == Value("dict", "", d, <<>>)

\* No mapping under way
NoRt == [pc |-> "idle", data |-> DictV(EmptyFields), doc |-> DictV(EmptyFields),
         back |-> DictV(EmptyFields)]

(***************************************************************************)
(* Class statements                                                        *)
(***************************************************************************)

\* The outcome of the last class statement: how many were executed, the
\* last of them and the exception it ended with ("" when the class exists)
NoDef == [n |-> 0, def |-> SearchQueryDef, exc |-> ""]

\* The QueryField objects of the module that defines the schemas, built
\* before the class statements that use them:
\*   QueryField(sort=FieldSort.ASC), QueryField(sort=FieldSort.DESC), QueryField()
ModuleFields ==
    << QueryField_init("QueryField", FieldSort_ASC),
       QueryField_init("QueryField", FieldSort_DESC),
       QueryField_init("QueryField", FieldSort_NO) >>

MaxDefs == 2

\* The attribute names of the class bodies and the default sorts they assign
AttrNames == {"text", "value"}
DeclaredSorts ==
    {SortOf("text", SortDirection_DESC), SortOf("value", SortDirection_ASC)}

\* The bodies: each attribute name is left out or bound to one of the
\* module's QueryField objects, no object under two names of one body (a
\* descriptor is declared once per schema attribute)
Bodies ==
    {<<>>}
    \cup {<< <<k, i>> >> : k \in AttrNames, i \in 1..Len(ModuleFields)}
    \cup {<< <<"text", ij[1]>>, <<"value", ij[2]>> >> :
              ij \in {p \in (1..Len(ModuleFields)) \X (1..Len(ModuleFields)) : p[1] < p[2]}}

\* The base lists: one or two of the classes defined so far
BaseLists(n) == {<<b>> : b \in 1..n} \cup {p \in (1..n) \X (1..n) : p[1] # p[2]}

ClassDefs(n) ==
    {ClassDef(bases, ns, FALSE, NoSort, "") : bases \in BaseLists(n), ns \in Bodies}
    \cup {ClassDef(bases, ns, TRUE, ds, "") :
              bases \in BaseLists(n), ns \in Bodies, ds \in DeclaredSorts \cup {NoSort}}

InitSchema ==
    /\ desc = ModuleFields
    /\ classes = DefineAll(ModuleFields, <<>>, <<SearchQueryDef>>).classes
    /\ last_def = NoDef
    /\ req = IdleReq
    /\ query = NoQuery
    /\ error = NoError
    /\ find_cache = EmptyCache
    /\ lm = IdleLm
    /\ rel = IdleRel
    /\ rt = NoRt

\* The class statement def ends with the result r of SearchQueryMeta.__new__
Defined(def, r) ==
    /\ desc' = r.desc
    /\ classes' = ClassesAfter(classes, r)
    /\ last_def' = [n |-> last_def.n + 1, def |-> def, exc |-> r.exc]

\* A class statement is executed
DefineClass ==
    /\ last_def.n < MaxDefs
    /\ \E def \in ClassDefs(Len(classes)) :
          Defined(def, SearchQueryMeta_new(desc, classes, def))
    /\ UNCHANGED <<req, query, error, find_cache, lm, rel, rt>>

NextSchema == DefineClass

SpecSchema == InitSchema /\ [][NextSchema]_vars

(***************************************************************************)
(* Query parsing: SearchQuery                                              *)
(***************************************************************************)

\* One value of FilterJson = Dict[str, Union[str, List[Any], Dict[str, Any]]]:
\* pydantic turns a scalar into a str and keeps a list and a mapping
FilterJson_value(c) == IF c.t = "scalar" THEN Scalar(StrV(PyStr(c))) ELSE c

\* parse_obj_as(FrozenSet[self.id_type], values) over the items of a list
RECURSIVE parse_id_items(_, _, _)
parse_id_items(id_type, items, acc) ==
    IF Len(items) = 0 THEN Ok(acc)
    ELSE AndThen(IF id_type = "oid" THEN parse_obj_as_id(Scalar(items[1]))
                 ELSE Ok(StrV(PyStr(Scalar(items[1])))),
                 LAMBDA one : parse_id_items(id_type, Tail(items), acc \cup {one}))

\* SearchQuery.parse_ids
parse_ids(id_type, c) ==
    IF c.t # "list" THEN Raise("ValidationError")
    ELSE AndThen(parse_id_items(id_type, c.items, {}),
                 LAMBDA parsed : Ok(IdsFilter(parsed)))

\* result.extend(field.parse_value(x) for x in condition.items())
RECURSIVE parse_items(_, _, _)
parse_items(field, entries, result) ==
    IF Len(entries) = 0 THEN Ok(result)
    ELSE AndThen(parse_value(field, TupleC(entries[1][1], entries[1][2])),
                 LAMBDA f : parse_items(field, Tail(entries), Append(result, f)))

\* The loop of SearchQuery.parse_filter_values over filter.items()
RECURSIVE parse_filter_loop(_, _, _, _, _)
\* One pass of the loop's else branch: the filters of one known field are
\* added to result
parse_condition(field, condition, result) ==
    IF condition.t = "dict" THEN parse_items(field, condition.entries, result)
    ELSE AndThen(parse_value(field, condition), LAMBDA f : Ok(Append(result, f)))

parse_filter_loop(d, fields, id_type, entries, result) ==
    IF Len(entries) = 0 THEN Ok(result)
    ELSE IF entries[1][1] = "ids"
    THEN AndThen(parse_ids(id_type, FilterJson_value(entries[1][2])),
                 LAMBDA f : Ok(<<f>>))
    ELSE IF entries[1][1] \in DOMAIN fields
    THEN AndThen(parse_condition(d[fields[entries[1][1]]],
                                 FilterJson_value(entries[1][2]), result),
                 LAMBDA r : parse_filter_loop(d, fields, id_type, Tail(entries), r))
    ELSE Raise("KeyError")

\* SearchQuery.parse_filter_values of an instance of class c
parse_filter_values(d, cs, c, values) ==
    IF values.t # "dict" THEN Raise("ValidationError")
    ELSE parse_filter_loop(d, cs[c].fields, id_type_of(cs, c), values.entries, <<>>)

\* SearchQuery.parse_sort_value of an instance of class c
\* The first half of parse_sort_value: the (field, direction) asked for
parse_sort_tuple(value) ==
    IF value.t = "str" THEN Ok(SortOf(value.s, SortDirection_ASC))
    ELSE IF Len(value.items) = 2 /\ value.items[2] \in {"asc", "dsc"}
    THEN Ok(SortOf(value.items[1], IF value.items[2] = "asc" THEN SortDirection_ASC
                                   ELSE SortDirection_DESC))
    ELSE Raise("ValidationError")

\* The second half: the field is looked up and asked whether it can sort
check_sort(d, fields, sort) ==
    IF sort.field \in DOMAIN fields
    THEN IF can_sort(d[fields[sort.field]], sort.dir) THEN Ok(sort)
         ELSE Raise("ValueError")
    ELSE Raise("KeyError")

parse_sort_value(d, cs, c, value) ==
    AndThen(parse_sort_tuple(value), LAMBDA sort : check_sort(d, cs[c].fields, sort))

\* limit: conint(ge=1, lt=251) = Query(20)
Limit_ge == 1
Limit_lt == 251
Limit_default == 20
\* page: int = Query(0)
Page_default == 0

\* A mutant of conint_limit: the upper bound is taken as inclusive
conint_limit_le(n) == n >= Limit_ge /\ n <= Limit_lt

\* The declared constraint of the limit parameter
conint_limit(n) == n >= Limit_ge /\ n < Limit_lt

\* SearchQuery.raise_request_error(e)
raise_request_error(e) ==
    [ok |-> FALSE, val |-> <<>>, exc |-> "RequestValidationError", inner |-> e]

\* SearchQuery.__init__ of class c as the request's dependency: the
\* parameters are validated against their declarations, then the body runs;
\* whatever the body raises is re-raised by raise_request_error.
\* The try block of __init__
init_body(d, cs, c, filter, sort, page, limit, with_count) ==
    AndThen(IF FilterTruthy(filter) THEN parse_filter_values(d, cs, c, filter)
            ELSE Ok(<<>>),
            LAMBDA f :
                AndThen(IF SortTruthy(sort) THEN parse_sort_value(d, cs, c, sort)
                        ELSE Ok(default_sort_of(cs, c)),
                        LAMBDA s : Ok(QueryOf(c, Range(f), s, page, limit, with_count))))

\* except Exception as e: self.raise_request_error(e)
init_except(r) == IF r.ok THEN r ELSE raise_request_error(r.exc)

limit_or_default(limit) == IF limit.given THEN limit.n ELSE Limit_default

SearchQuery_init(d, cs, c, filter, sort, page, limit, with_count) ==
    IF ~conint_limit(limit_or_default(limit)) THEN raise_request_error("limit")
    ELSE init_except(init_body(d, cs, c, filter, sort, page, limit_or_default(limit),
                               with_count))

(***************************************************************************)
(* Store translation: MongodbSearchQuery                                   *)
(***************************************************************************)

\* One constraint of a store predicate: find_request[field][op] = value.  A
\* predicate is a set of constraints with at most one per field and op.
Constraint(field, op, value, values) ==
    [field |-> field, op |-> op, value |-> value, values |-> values]

\* re.compile(value, re.IGNORECASE | re.UNICODE)
Regex(s) == [t |-> "regex", s |-> s, n |-> 0]

\* MongodbSearchQuery.filter_ids
filter_ids(filter) ==
    Constraint("_id", "$in", NoVal, {ObjectId(x) : x \in filter.values})

\* MongodbSearchQuery.filter_text
filter_text(filter) ==
    IF filter.op = "EQ" THEN Constraint(filter.field, "$eq", filter.value, {})
    ELSE IF filter.op = "NEQ" THEN Constraint(filter.field, "$ne", filter.value, {})
    ELSE LET value == IF filter.op = "START" THEN <<"^">> \o filter.value.s
                      ELSE IF filter.op = "END" THEN filter.value.s \o <<"$">>
                      ELSE filter.value.s
         IN  Constraint(filter.field, "$regex", Regex(value), {})

\* MongodbSearchQuery.order_filter_map
order_filter_map(op) ==
    CASE op = "EQ" -> "$eq"
      [] op = "NEQ" -> "$ne"
      [] op = "LT" -> "$lt"
      [] op = "LTE" -> "$lte"
      [] op = "GT" -> "$gt"
      [] op = "GTE" -> "$gte"

\* MongodbSearchQuery.filter_ordered
filter_ordered(filter) ==
    Constraint(filter.field, order_filter_map(filter.op), filter.value, {})

\* MongodbSearchQuery.filter_equal
filter_equal(filter) == Constraint(filter.field, "$eq", filter.value, {})

\* find_request[field].update(cond): the constraint replaces the one the
\* field already has under the same operator key
dict_update(find_request, c) ==
    {x \in find_request : ~(x.field = c.field /\ x.op = c.op)} \cup {c}

\* The isinstance chain of find: the constraint of one filter; a filter of
\* no known class, or one with an empty field name, is not implemented
find_chain(filter) ==
    CASE filter.cls = "TextFilter" -> filter_text(filter)
      [] filter.cls = "RefFilter" -> filter_equal(filter)
      [] filter.cls = "IntFilter" -> filter_ordered(filter)
      [] OTHER -> Constraint("", "", NoVal, {})

find_checked(c) ==
    IF c.field # "" /\ c.op # "" THEN Ok(c) ELSE Raise("NotImplementedError")

find_cond(filter) == find_checked(find_chain(filter))

\* The loop of MongodbSearchQuery.find over the filters in the order the
\* frozenset yields them
RECURSIVE find_loop(_, _)
find_loop(order, find_request) ==
    IF Len(order) = 0 THEN Ok(find_request)
    ELSE IF order[1].cls = "IdsFilter" THEN Ok({filter_ids(order[1])})
    ELSE AndThen(find_cond(order[1]),
                 LAMBDA c : find_loop(Tail(order), dict_update(find_request, c)))

\* MongodbSearchQuery.find of the instance q, its filters iterated in order
find(q, order) == find_loop(order, {})

\* The orders in which a set can be iterated
Orders(S) == {o \in [1..Cardinality(S) -> S] : \A x \in S : \E i \in DOMAIN o : o[i] = x}

(***************************************************************************)
(* Requests: building a query and translating it                           *)
(***************************************************************************)

\* The schema of the requests: the two classes of the library and
\*   class FakeSearch(MongodbSearchQuery):
\*       text = QueryField(sort=FieldSort.ASC | FieldSort.DESC)
\*       atext = QueryField(sort=FieldSort.ASC)
\*       ivalue = IntQueryField(sort=FieldSort.DESC)
\*       ref = RefQueryField()
\*       default_sort = ('text', SortDirection.DESC)
FakeSearchFields ==
    << QueryField_init("QueryField", FieldSort_ASC + FieldSort_DESC),
       QueryField_init("QueryField", FieldSort_ASC),
       QueryField_init("IntQueryField", FieldSort_DESC),
       QueryField_init("RefQueryField", FieldSort_NO) >>
FakeSearchDef ==
    ClassDef(<<2>>, << <<"text", 1>>, <<"atext", 2>>, <<"ivalue", 3>>, <<"ref", 4>> >>,
             TRUE, SortOf("text", SortDirection_DESC), "")
FakeSchema ==
    DefineAll(FakeSearchFields, <<>>, <<SearchQueryDef, MongodbSearchQueryDef, FakeSearchDef>>)

\* The classes requests are made of: SearchQuery itself and FakeSearch
QueryClasses == {1, 3}

\* Scalars of the payloads
vA == StrV(<<"a">>)
vB == StrV(<<"b">>)
v1 == StrV(<<"1">>)
v12 == StrV(<<"1", "2">>)
vZ == StrV(<<"z">>)
vHat == StrV(<<"^">>)
i2 == IntV(2)

\* Operator symbols of the payloads: those of the text and of the ordered
\* fields, and one that is none
OpSymbols == <<"=", "!", "^", "$", "%", ">", ">=", "<", "<=", "?">>

\* The conditions a payload gives a key: scalars, lists, and mappings of up
\* to two operators
ScalarConds == {Scalar(vA), Scalar(v12), Scalar(i2)}
ListConds == {ListC(<<>>), ListC(<<vA, vB>>), ListC(<<vHat, vA>>), ListC(<<vZ, i2>>)}
DictConds ==
    {DictC(<<>>)}
    \cup {DictC(<< <<OpSymbols[i], v>> >>) : i \in 1..Len(OpSymbols), v \in {vA, v12}}
    \cup {DictC(<< <<OpSymbols[i], v1>>, <<OpSymbols[j], vB>> >>) :
              i \in 1..Len(OpSymbols), j \in 1..Len(OpSymbols)} 
AllConds == ScalarConds \cup ListConds \cup {c \in DictConds :
                Len(c.entries) < 2 \/ c.entries[1][1] # c.entries[2][1]}
FewConds == {Scalar(vA), Scalar(v12), ListC(<<vA, vB>>), ListC(<<vHat, vA>>),
             DictC(<< <<"^", vA>> >>), DictC(<< <<"?", vA>> >>)}
FilterKeys == {"ids", "text", "ivalue", "ref", "bogus"}

\* The raw filters of the requests: none, an empty object, a list, every
\* condition under one key, and two different keys in both orders
RawFilters ==
    {NoFilter, DictFilter(<<>>), ListFilter(<<vA>>)}
    \cup {DictFilter(<< <<k, c>> >>) : k \in FilterKeys, c \in AllConds}
    \cup {f \in {DictFilter(<< <<k1, c1>>, <<k2, c2>> >>) :
                     k1 \in FilterKeys, c1 \in FewConds,
                     k2 \in FilterKeys, c2 \in FewConds} :
              f.entries[1][1] # f.entries[2][1]}

\* The raw sorts of the requests
RawSorts ==
    {NoRawSort, StrSort("text"), StrSort("ivalue"), StrSort("bogus"),
     ListSort(<<"text", "asc">>), ListSort(<<"text", "dsc">>),
     ListSort(<<"atext", "asc">>), ListSort(<<"atext", "dsc">>),
     ListSort(<<"ivalue", "asc">>), ListSort(<<"ivalue", "dsc">>),
     ListSort(<<"ref", "asc">>), ListSort(<<"ref", "dsc">>),
     ListSort(<<"bogus", "dsc">>), ListSort(<<"text", "up">>), ListSort(<<"text">>)}

RawLimits == {NoLimit, LimitOf(0), LimitOf(1), LimitOf(250), LimitOf(251)}
RawPaging == {<<Page_default, FALSE>>, <<2, TRUE>>}

\* The requests: every raw filter with a few sorts and limits, and a few raw
\* filters with every sort, limit and paging
FewFilters ==
    {NoFilter, DictFilter(<< <<"text", Scalar(vA)>> >>),
     DictFilter(<< <<"bogus", Scalar(vA)>> >>),
     DictFilter(<< <<"ids", ListC(<<vA, vB>>)>> >>)}
FewSorts == {NoRawSort, ListSort(<<"atext", "dsc">>), StrSort("bogus")}
FewLimits == {NoLimit, LimitOf(251)}
Requests ==
    {Request("idle", c, f, s, Page_default, l, FALSE) :
        c \in QueryClasses, f \in RawFilters, s \in FewSorts, l \in FewLimits}
    \cup {Request("idle", c, f, s, pw[1], l, pw[2]) :
        c \in QueryClasses, f \in FewFilters, s \in RawSorts, l \in RawLimits,
        pw \in RawPaging}

InitQuery ==
    /\ desc = FakeSchema.desc
    /\ classes = FakeSchema.classes
    /\ last_def = NoDef
    /\ req = IdleReq
    /\ query = NoQuery
    /\ error = NoError
    /\ find_cache = EmptyCache
    /\ lm = IdleLm
    /\ rel = IdleRel
    /\ rt = NoRt

\* The request in ends with the result r of SearchQuery.__init__
Constructed(in, r) ==
    /\ req' = [in EXCEPT !.pc = IF r.ok THEN "built" ELSE "failed"]
    /\ query' = IF r.ok THEN r.val ELSE NoQuery
    /\ error' = [exc |-> r.exc, inner |-> r.inner]

\* The cached find after the first read
Cached(r, order) ==
    IF r.ok THEN [state |-> "value", val |-> r.val, order |-> order]
    ELSE [state |-> "raised", val |-> {}, order |-> order]

\* A request of the pool arrives and its query is built, or rejected
ConstructFrom(pool) ==
    /\ req.pc = "idle"
    /\ \E in \in pool :
          Constructed(in, SearchQuery_init(desc, classes, in.cls, in.filter, in.sort,
                                          in.page, in.limit, in.with_count))
    /\ UNCHANGED <<desc, classes, last_def, find_cache, lm, rel, rt>>

Construct == ConstructFrom(Requests)

\* The query's find is read for the first time: the predicate is built from
\* the filters in the order the set yields them, and kept
Find ==
    /\ req.pc = "built"
    /\ id_type_of(classes, query.cls) = "oid"
    /\ find_cache.state = "empty"
    /\ \E order \in Orders(query.filter) : find_cache' = Cached(find(query, order), order)
    /\ UNCHANGED <<desc, classes, last_def, req, query, error, lm, rel, rt>>

\* The response is produced and the request's objects are dropped
Discard ==
    /\ req.pc # "idle"
    /\ lm.pc \in {"idle", "returned", "raised"}
    /\ req' = IdleReq
    /\ query' = NoQuery
    /\ error' = NoError
    /\ find_cache' = EmptyCache
    /\ lm' = IdleLm
    /\ UNCHANGED <<desc, classes, last_def, rel, rt>>

NextQuery == Construct \/ Find \/ Discard

SpecQuery == InitQuery /\ [][NextQuery]_vars

\* Class statements and requests to the classes defined so far: no filter,
\* or one value for one attribute name
SchemaRequests ==
    {Request("idle", c, f, NoRawSort, Page_default, NoLimit, FALSE) :
        c \in 1..Len(classes),
        f \in {NoFilter} \cup {DictFilter(<< <<k, Scalar(vA)>> >>) : k \in AttrNames}}

ConstructSchema == ConstructFrom(SchemaRequests)

NextSchemaQuery == DefineClass \/ ConstructSchema \/ Discard

SpecSchemaQuery == InitSchema /\ [][NextSchemaQuery]_vars

(***************************************************************************)
(* list_model                                                              *)
(***************************************************************************)

\* The documents of the store that match a predicate, in natural order: a
\* document has its _id, the rank of its insertion, and one sort key
MaxDocs == 3
ManyDocs == 22
Doc(id, key) == [_id |-> id, key |-> key]
KeyOrders(n) == {p \in [1..n -> 1..n] : \A k \in 1..n : \E i \in 1..n : p[i] = k}
Stores ==
    {[i \in 1..Len(p) |-> Doc(i, p[i])] : p \in UNION {KeyOrders(n) : n \in 0..MaxDocs}}
    \cup {[i \in 1..ManyDocs |-> Doc(i, ManyDocs + 1 - i)]}

\* The store's order of the documents under cursor.sort(field, direction)
RECURSIVE Ascending(_)
Ascending(S) ==
    IF S = {} THEN <<>>
    ELSE <<CHOOSE d \in S : \A e \in S : d.key <= e.key>>
         \o Ascending(S \ {CHOOSE d \in S : \A e \in S : d.key <= e.key})
Reverse(s) == [i \in 1..Len(s) |-> s[Len(s) + 1 - i]]
Sorted(docs, sort) ==
    IF sort.none THEN docs
    ELSE IF sort.dir = SortDirection_ASC THEN Ascending(Range(docs))
    ELSE Reverse(Ascending(Range(docs)))

\* The documents a cursor yields: the matching ones, sorted, after skip, up
\* to limit
Yields(docs, cursor) ==
    SubSeq(Sorted(docs, cursor.sort), cursor.skip + 1,
           IF cursor.skip + cursor.limit < Len(docs) THEN cursor.skip + cursor.limit
           ELSE Len(docs))

\* from_mongo: the '_id' of the document becomes the 'id' of the data
from_mongo(doc) == [id |-> doc._id, key |-> doc.key]

\* A store call as the collection or the cursor receives it
Call(op, pred, sort, n) == [op |-> op, pred |-> pred, sort |-> sort, n |-> n, done |-> TRUE]
Pending(c) == [c EXCEPT !.done = FALSE]

\* A mutant of count_wanted: the count is issued for every query
always_count(q) == TRUE

\* if query.with_count:
count_wanted(q) == q.with_count

\* A mutant of skip_of: the pages are taken to be numbered from 0
skip_from_zero(q) == q.page * q.limit

\* (query.page - 1) * query.limit
skip_of(q) == (q.page - 1) * q.limit

\* A mutant of try_exit: the cursor is closed only when the body of the try
\* completes
close_on_success(exc) == IF exc = "" THEN "closing" ELSE "closed"

\* try: ... finally: where the coroutine goes when the body of the try is
\* left, normally (exc = "") or by an exception
try_exit(exc) == "closing"

\* The calls cursor.sort, cursor.skip and cursor.limit of the query q, in
\* the order list_model makes them
Modifiers(q) ==
    (IF ~q.sort.none THEN <<Call("sort", {}, q.sort, 0)>> ELSE <<>>)
    \o (IF q.page > 1 THEN <<Call("skip", {}, NoSort, skip_of(q))>> ELSE <<>>)
    \o <<Call("limit", {}, NoSort, q.limit)>>

\* The cursor after its modifiers
Modified(cursor, mods) ==
    [cursor EXCEPT
        !.sort = IF mods # <<>> /\ mods[1].op = "sort" THEN mods[1].sort ELSE @,
        !.skip = IF \E i \in 1..Len(mods) : mods[i].op = "skip"
                 THEN mods[CHOOSE i \in 1..Len(mods) : mods[i].op = "skip"].n ELSE @,
        !.limit = mods[Len(mods)].n]

\* The requests list_model serves: of MongodbSearchQuery and of FakeSearch
ListClasses == {2, 3}
ListFilters ==
    {NoFilter,
     DictFilter(<< <<"ivalue", DictC(<< <<">", v1>>, <<"<=", v12>> >>)>> >>),
     DictFilter(<< <<"text", DictC(<< <<"^", vA>>, <<"$", vB>> >>)>> >>)}
ListSorts == {NoRawSort, StrSort("text"), ListSort(<<"ivalue", "dsc">>)}
ListPages == {0, 1, 2, 3}
ListLimits == {LimitOf(1), LimitOf(2), NoLimit}
ListRequests ==
    {Request("idle", c, f, s, p, l, w) :
        c \in ListClasses, f \in ListFilters, s \in ListSorts, p \in ListPages,
        l \in ListLimits, w \in BOOLEAN}

\* The exceptions of the store, of the type selector and of parse_obj
StoreError == "OperationFailure"
SelectorError == "KeyError"
ParseError == "ValidationError"

InitList ==
    /\ desc = FakeSchema.desc
    /\ classes = FakeSchema.classes
    /\ last_def = NoDef
    /\ req = IdleReq
    /\ query = NoQuery
    /\ error = NoError
    /\ find_cache = EmptyCache
    /\ lm = IdleLm
    /\ rel = IdleRel
    /\ rt = NoRt

ConstructList == ConstructFrom(ListRequests)

\* query.find is read: the cached predicate, or the one built now
FindOrders == IF find_cache.state = "value" THEN {find_cache.order} ELSE Orders(query.filter)
FindRead(order) == IF find_cache.state = "value" THEN Ok(find_cache.val) ELSE find(query, order)

\* list_model is called with a query and a collection: count = None and
\* the test of query.with_count
LmCall ==
    /\ req.pc = "built" /\ id_type_of(classes, query.cls) = "oid"
    /\ lm.pc = "idle"
    /\ \E docs \in Stores :
          lm' = [IdleLm EXCEPT !.docs = docs,
                               !.pc = IF count_wanted(query) THEN "count" ELSE "find"]
    /\ UNCHANGED <<desc, classes, last_def, req, query, error, find_cache, rel, rt>>

\* collection.count_documents(query.find) is issued and awaited
Counting(r, order) ==
    /\ find_cache' = IF find_cache.state = "value" THEN find_cache ELSE Cached(r, order)
    /\ lm' = IF r.ok
             THEN [lm EXCEPT !.pc = "counting",
                             !.calls = Append(@, Pending(Call("count_documents", r.val,
                                                              NoSort, 0)))]
             ELSE [lm EXCEPT !.pc = "raised", !.exc = r.exc]

LmCount ==
    /\ lm.pc = "count"
    /\ \E order \in FindOrders : Counting(FindRead(order), order)
    /\ UNCHANGED <<desc, classes, last_def, req, query, error, rel, rt>>

\* The count arrives, or the store fails
LmCounted ==
    /\ lm.pc = "counting"
    /\ \/ lm' = [lm EXCEPT !.pc = "find", !.count = CountOf(Len(lm.docs)),
                           !.calls[Len(lm.calls)].done = TRUE]
       \/ lm' = [lm EXCEPT !.pc = "raised", !.exc = StoreError]
    /\ UNCHANGED <<desc, classes, last_def, req, query, error, find_cache, rel, rt>>

\* cursor = collection.find(query.find), and inside the try the calls of
\* sort, skip and limit up to the one that raises (0 for none)
Finding(r, order, mods, failing) ==
    /\ find_cache' = IF find_cache.state = "value" THEN find_cache ELSE Cached(r, order)
    /\ lm' = IF ~r.ok THEN [lm EXCEPT !.pc = "raised", !.exc = r.exc]
             ELSE IF failing = 0
             THEN [lm EXCEPT !.pc = "iter",
                             !.calls = Append(@, Call("find", r.val, NoSort, 0)) \o mods,
                             !.cursor = Modified([NoCursor EXCEPT !.opened = TRUE], mods)]
             ELSE [lm EXCEPT !.pc = try_exit(StoreError), !.exc = StoreError,
                             !.calls = Append(@, Call("find", r.val, NoSort, 0))
                                       \o SubSeq(mods, 1, failing),
                             !.cursor = [NoCursor EXCEPT !.opened = TRUE]]

LmFind ==
    /\ lm.pc = "find"
    /\ \E order \in FindOrders : \E failing \in 0..Len(Modifiers(query)) :
          Finding(FindRead(order), order, Modifiers(query), failing)
    /\ UNCHANGED <<desc, classes, last_def, req, query, error, rel, rt>>

\* One round of the async for: the cursor is exhausted, or it yields a
\* document that becomes an item, or the fetch, the type selector or
\* parse_obj raises
LmNext ==
    /\ lm.pc = "iter"
    /\ IF lm.cursor.pos >= Len(Yields(lm.docs, lm.cursor))
       THEN lm' = [lm EXCEPT !.pc = try_exit("")]
       ELSE \/ lm' = [lm EXCEPT !.cursor.pos = @ + 1,
                                !.items = Append(@, from_mongo(
                                              Yields(lm.docs, lm.cursor)[lm.cursor.pos + 1]))]
            \/ \E e \in {StoreError, SelectorError, ParseError} :
                  lm' = [lm EXCEPT !.pc = try_exit(e), !.exc = e]
    /\ UNCHANGED <<desc, classes, last_def, req, query, error, find_cache, rel, rt>>

\* finally: await cursor.close()
LmClose ==
    /\ lm.pc = "closing"
    /\ lm' = [lm EXCEPT !.pc = "closed", !.cursor.closed = TRUE,
                        !.calls = Append(@, Call("close", {}, NoSort, 0))]
    /\ UNCHANGED <<desc, classes, last_def, req, query, error, find_cache, rel, rt>>

\* The pending exception goes on, or result_type(items, page, limit, count)
\* is returned
LmReturn ==
    /\ lm.pc = "closed"
    /\ lm' = IF lm.exc # "" THEN [lm EXCEPT !.pc = "raised"]
             ELSE [lm EXCEPT !.pc = "returned",
                             !.result = [none |-> FALSE, items |-> lm.items,
                                         page |-> query.page, limit |-> query.limit,
                                         count |-> lm.count]]
    /\ UNCHANGED <<desc, classes, last_def, req, query, error, find_cache, rel, rt>>

NextList ==
    ConstructList \/ LmCall \/ LmCount \/ LmCounted \/ LmFind \/ LmNext \/ LmClose
    \/ LmReturn \/ Discard

SpecList == InitList /\ [][NextList]_vars

(***************************************************************************)
(* Relations: inject_relations and inject_list_relations                   *)
(***************************************************************************)

MaxBatch == 2
MaxCalls == 2

\* The records of a batch: a name, the references "a_id" and "b_id" ("" is
\* an empty reference) and the targets "a" and "b", not yet assigned
Names == <<"r1", "r2", "r3", "r4">>
Item(name, a_id, b_id) ==
    [name |-> name, a_id |-> a_id, b_id |-> b_id, a |-> "unset", b |-> "unset"]
Refs == {"", "x", "y"} \X {"", "x"}
Batches(lens) ==
    UNION {{[i \in 1..n |-> Item(Names[i], refs[i][1], refs[i][2])] :
               refs \in [1..n -> Refs]} : n \in lens}

\* Relation.extract_id
extract_id(relation, item) ==
    IF item[relation.id_prop] # ""
    THEN [relation EXCEPT !.ids = @ \cup {item[relation.id_prop]}]
    ELSE relation

\* for item in items.items: relation.extract_id(item)
RECURSIVE extract_ids(_, _)
extract_ids(relation, items) ==
    IF Len(items) = 0 THEN relation
    ELSE extract_ids(extract_id(relation, items[1]), Tail(items))

\* Relation.inject: self.models.get(rel_id), or None
inject(relation, item) ==
    IF item[relation.id_prop] # ""
    THEN [item EXCEPT ![relation.target_prop] =
              IF item[relation.id_prop] \in relation.models THEN item[relation.id_prop]
              ELSE "None"]
    ELSE [item EXCEPT ![relation.target_prop] = "None"]

\* reduce(lambda x, r: r.inject(x), relations, item)
RECURSIVE inject_reduce(_, _)
inject_reduce(relations, item) ==
    IF Len(relations) = 0 THEN item
    ELSE inject_reduce(Tail(relations), inject(relations[1], item))

\* A lookup as the search callable receives it: {'_id': {'$in': ids}}
Lookup(r, ids) == [rel |-> r, ids |-> ids]

InitRel ==
    /\ desc = FakeSchema.desc
    /\ classes = FakeSchema.classes
    /\ last_def = NoDef
    /\ req = IdleReq
    /\ query = NoQuery
    /\ error = NoError
    /\ find_cache = EmptyCache
    /\ lm = IdleLm
    /\ rel = IdleRel
    /\ rt = NoRt

\* inject_relations(model, relations), a batch of one, or
\* inject_list_relations(items, relations) is called, with new Relation
\* objects or with those of the call before: every relation extracts the ids
\* of every record, and the loads are gathered
RelCall ==
    /\ rel.pc \in {"idle", "returned"}
    /\ rel.n < MaxCalls
    /\ \E fresh \in BOOLEAN : \E batch \in Batches({1}) \cup Batches(0..MaxBatch) :
          rel' = [IdleRel EXCEPT
                     !.pc = "gather", !.n = rel.n + 1, !.batch = batch,
                     !.relations = [r \in 1..Len(Relations) |->
                                       extract_ids(IF fresh THEN Relations[r]
                                                   ELSE rel.relations[r], batch)],
                     !.loads = [r \in 1..Len(Relations) |-> "start"]]
    /\ UNCHANGED <<desc, classes, last_def, req, query, error, find_cache, lm, rt>>

\* Relation.load starts: if self.ids, the search is awaited
RelLoad(r) ==
    /\ rel.pc = "gather" /\ rel.loads[r] = "start"
    /\ rel' = IF rel.relations[r].ids # {}
              THEN [rel EXCEPT !.loads[r] = "wait",
                               !.lookups = Append(@, Lookup(r, rel.relations[r].ids))]
              ELSE [rel EXCEPT !.loads[r] = "done"]
    /\ UNCHANGED <<desc, classes, last_def, req, query, error, find_cache, lm, rt>>

\* The search yields the models it found among the ids, each stored under
\* its id, and ends, or it raises after some of them
RelLoaded(r) ==
    /\ rel.pc = "gather" /\ rel.loads[r] = "wait"
    /\ \E found \in SUBSET rel.relations[r].ids : \E ok \in BOOLEAN :
          rel' = [rel EXCEPT !.loads[r] = IF ok THEN "done" ELSE "failed",
                             !.relations[r].models = @ \cup found,
                             !.found[r] = found]
    /\ UNCHANGED <<desc, classes, last_def, req, query, error, find_cache, lm, rt>>

\* asyncio.gather(..., return_exceptions=True) is over: every relation is
\* injected into every record, and the records are returned
RelInject ==
    /\ rel.pc = "gather"
    /\ \A r \in 1..Len(Relations) : rel.loads[r] \in {"done", "failed"}
    /\ rel' = [rel EXCEPT !.pc = "returned",
                          !.items = [i \in 1..Len(rel.batch) |->
                                        inject_reduce(rel.relations, rel.batch[i])]]
    /\ UNCHANGED <<desc, classes, last_def, req, query, error, find_cache, lm, rt>>

NextRel == RelCall \/ (\E r \in 1..Len(Relations) : RelLoad(r) \/ RelLoaded(r)) \/ RelInject

SpecRel == InitRel /\ [][NextRel]_vars

(***************************************************************************)
(* The record bridge: to_mongo and from_mongo                              *)
(***************************************************************************)

\* dict without the key k: pop(k, None)
Pop(d, k) == [j \in DOMAIN d \ {k} |-> d[j]]

\* to_mongo: the values of a dict are converted by their type, a nested dict
\* and the elements of a list or set by to_mongo itself, and 'id' is popped;
\* what is no dict is returned as it is
RECURSIVE to_mongo(_)
to_mongo_value(v) ==
    CASE v.t = "Enum" -> Atom("str", v.s)
      [] v.t = "Decimal" -> Atom("str", v.s)
      [] v.t = "timedelta" -> Atom("float", v.s)
      [] v.t = "time" -> Atom("str", v.s)
      [] v.t = "dict" -> to_mongo(v)
      [] v.t \in {"list", "set", "frozenset"} ->
            Value("list", "", EmptyFields, [i \in 1..Len(v.e) |-> to_mongo(v.e[i])])
      [] OTHER -> v
to_mongo(data) ==
    IF data.t = "dict" THEN DictV(Pop([k \in DOMAIN data.d |-> to_mongo_value(data.d[k])], "id"))
    ELSE data

\* from_mongo on a mapping: '_id' is popped and, if truthy, becomes 'id'
from_mongo_dict(data) ==
    IF "_id" \in DOMAIN data.d /\ data.d["_id"].s # ""
    THEN DictV([k \in (DOMAIN data.d \ {"_id"}) \cup {"id"} |->
                   IF k = "id" THEN data.d["_id"] ELSE data.d[k]])
    ELSE DictV(Pop(data.d, "_id"))

\* The record mappings: an optional 'id', an optional value 'v' of every
\* type, an optional nested mapping 'child', with an 'id' of its own or not
MaxElems == 1
Atoms ==
    {Atom("str", "a"), Atom("int", "1"), Atom("Enum", "a"), Atom("Decimal", "1"),
     Atom("timedelta", "1"), Atom("time", "1")}
Children ==
    {DictV([k \in ks |-> IF k = "id" THEN Atom("str", "c") ELSE Atom("Decimal", "1")]) :
        ks \in SUBSET {"id", "n"}}
Collections ==
    {Value(t, "", EmptyFields, [i \in 1..n |-> x]) :
        t \in {"list", "set", "frozenset"}, n \in 0..MaxElems,
        x \in {Atom("int", "1"), Atom("Decimal", "1")} \cup Children}
Mappings ==
    {DictV([k \in ks |-> CASE k = "id" -> Atom("str", "o")
                          [] k = "v" -> v
                          [] OTHER -> c]) :
        ks \in SUBSET {"id", "v", "child"}, v \in Atoms \cup Collections, c \in Children}

InitBridge ==
    /\ desc = FakeSchema.desc
    /\ classes = FakeSchema.classes
    /\ last_def = NoDef
    /\ req = IdleReq
    /\ query = NoQuery
    /\ error = NoError
    /\ find_cache = EmptyCache
    /\ lm = IdleLm
    /\ rel = IdleRel
    /\ rt = NoRt

\* A record is dumped: insert.dict()
RtDict ==
    /\ rt.pc = "idle"
    /\ \E data \in Mappings : rt' = [NoRt EXCEPT !.pc = "dict", !.data = data]
    /\ UNCHANGED <<desc, classes, last_def, req, query, error, find_cache, lm, rel>>

\* to_mongo(insert.dict())
RtToMongo ==
    /\ rt.pc = "dict"
    /\ rt' = [rt EXCEPT !.pc = "mongo", !.doc = to_mongo(rt.data)]
    /\ UNCHANGED <<desc, classes, last_def, req, query, error, find_cache, lm, rel>>

\* The store keeps the document under an '_id': the record's identity
RtStored ==
    /\ rt.pc = "mongo"
    /\ rt' = [rt EXCEPT !.pc = "stored",
                        !.doc = DictV([k \in DOMAIN rt.doc.d \cup {"_id"} |->
                                          IF k = "_id" THEN Atom("ObjectId", "o")
                                          ELSE rt.doc.d[k]])]
    /\ UNCHANGED <<desc, classes, last_def, req, query, error, find_cache, lm, rel>>

\* from_mongo(doc) of the document read back
RtFromMongo ==
    /\ rt.pc = "stored"
    /\ rt' = [rt EXCEPT !.pc = "back", !.back = from_mongo_dict(rt.doc)]
    /\ UNCHANGED <<desc, classes, last_def, req, query, error, find_cache, lm, rel>>

\* The next record
RtDone ==
    /\ rt.pc = "back"
    /\ rt' = NoRt
    /\ UNCHANGED <<desc, classes, last_def, req, query, error, find_cache, lm, rel>>

NextBridge == RtDict \/ RtToMongo \/ RtStored \/ RtFromMongo \/ RtDone

SpecBridge == InitBridge /\ [][NextBridge]_vars

(***************************************************************************)
(* Properties                                                              *)
(***************************************************************************)

\* What the interface promises, in its own words: a field declares a
\* direction when the flag of that direction is among its FieldSort flags
Declares(sort, dir) ==
    \/ dir = SortDirection_ASC /\ FlagIn(FieldSort_ASC, sort)
    \/ dir = SortDirection_DESC /\ FlagIn(FieldSort_DESC, sort)

TextSymbols == {"=", "!", "^", "$", "%"}
OrderSymbols == {"=", "!", ">", ">=", "<", "<="}

\* The entry of the raw filter f under the key "ids"
HasIds(f) == f.t = "dict" /\ \E i \in 1..Len(f.entries) : f.entries[i][1] = "ids"
IdsCond(f) == f.entries[CHOOSE i \in 1..Len(f.entries) : f.entries[i][1] = "ids"][2]

\* A list of identifiers that are valid for the class's id_type
ValidIds(c, id_type) ==
    /\ c.t = "list"
    /\ \A i \in 1..Len(c.items) :
          c.items[i].t = "str" /\ (id_type = "oid" => IsIdString(c.items[i].s))

\* The request has no sort and no limit of its own, so only its filter can
\* be refused
FilterOnly(r) == ~SortTruthy(r.sort) /\ ~r.limit.given

\* C1: a payload that holds the key "ids" with valid identifiers yields
\* exactly one filter, the IdsFilter of those identifiers, whatever other
\* keys it holds and wherever "ids" stands among them; no other key produces
\* a filter or an error.
C1_IdsAlone ==
    (req.pc # "idle" /\ FilterOnly(req) /\ HasIds(req.filter)
        /\ ValidIds(IdsCond(req.filter), id_type_of(classes, req.cls)))
    => (req.pc = "built"
        /\ query.filter = {IdsFilter(Range(IdsCond(req.filter).items))})

\* C2: the sort of every query that was built names a field of the registry
\* that declares the sort's direction, and a request for a direction the
\* field does not declare is rejected with the request-validation error.
C2_SortDeclared ==
    /\ (req.pc = "built" /\ ~query.sort.none) =>
          /\ query.sort.field \in DOMAIN classes[query.cls].fields
          /\ Declares(desc[classes[query.cls].fields[query.sort.field]].sort,
                      query.sort.dir)
    /\ (req.pc # "idle" /\ req.sort.t = "list" /\ Len(req.sort.items) = 2
            /\ req.sort.items[2] = "dsc"
            /\ req.sort.items[1] \in DOMAIN classes[req.cls].fields
            /\ ~FlagIn(FieldSort_DESC, desc[classes[req.cls].fields[req.sort.items[1]]].sort))
        => (req.pc = "failed" /\ error.exc = "RequestValidationError")

\* The effective default sort of the class statement def, its merged
\* registry, and what the interface says of them
EffectiveDefaultSort(def) ==
    IF def.has_ds THEN def.ds
    ELSE LookupDefaultSort(classes, C3Merge([i \in 1..Len(def.bases) |->
                                                classes[def.bases[i]].mro]), NoSort)
MergedRegistry(def) ==
    LET inherited == UNION {DOMAIN classes[b].fields : b \in Range(def.bases)}
        own == {def.ns[i][1] : i \in 1..Len(def.ns)}
    IN  [k \in inherited \cup own |->
            IF k \in own THEN def.ns[CHOOSE i \in 1..Len(def.ns) : def.ns[i][1] = k][2]
            ELSE classes[CHOOSE b \in Range(def.bases) : k \in DOMAIN classes[b].fields].fields[k]]
InvalidDefaultSort(def) ==
    LET ds == EffectiveDefaultSort(def)
        reg == MergedRegistry(def)
    IN  /\ ~ds.none
        /\ \/ ds.field \notin DOMAIN reg
           \/ ~Declares(desc[reg[ds.field]].sort, ds.dir)

\* C3: a class statement raises ValueError exactly when its effective
\* default sort names a field that is absent from the merged registry or
\* that does not declare the default sort's direction; otherwise the class
\* is created.
C3_DefaultSortChecked ==
    (last_def.n > 0 /\ last_def.exc # "TypeError")
    => (last_def.exc = "ValueError" <=> InvalidDefaultSort(last_def.def))

\* C4: the predicate find builds enforces every filter of the filter set:
\* each filter's constraint is in it, and a field with k filters has k
\* simultaneous constraints.
C4_AllFiltersEnforced ==
    (find_cache.state = "value" /\ \A f \in query.filter : f.cls # "IdsFilter")
    => /\ \A f \in query.filter : find_chain(f) \in find_cache.val
       /\ \A f \in query.filter :
             Cardinality({c \in find_cache.val : c.field = f.field})
                 = Cardinality({g \in query.filter : g.field = f.field})

\* The kind of the field a key names in the class c ("" for an unknown key)
KindOf(c, k) ==
    IF k \in DOMAIN classes[c].fields THEN desc[classes[c].fields[k]].cls ELSE ""

\* A value the field kind can take, and a condition it can parse
Coercible(kind, v) ==
    CASE kind = "QueryField" -> TRUE
      [] kind = "IntQueryField" ->
            v.t = "int" \/ (Len(v.s) > 0 /\ \A i \in 1..Len(v.s) : IsDigit(v.s[i]))
      [] OTHER -> IsIdString(PyStr(Scalar(v)))
ValidCondition(kind, c) ==
    CASE c.t = "scalar" -> Coercible(kind, c.val)
      [] c.t = "list" -> kind = "QueryField"
      [] OTHER -> \A i \in 1..Len(c.entries) :
                     /\ kind = "QueryField" => c.entries[i][1] \in TextSymbols
                     /\ kind = "IntQueryField" => c.entries[i][1] \in OrderSymbols
                     /\ kind # "RefQueryField"
                     /\ Coercible(kind, c.entries[i][2])
ValidFilter(r) ==
    \A i \in 1..Len(r.filter.entries) :
        /\ KindOf(r.cls, r.filter.entries[i][1]) # ""
        /\ ValidCondition(KindOf(r.cls, r.filter.entries[i][1]), r.filter.entries[i][2])
ValidSort(r) ==
    \/ ~SortTruthy(r.sort)
    \/ /\ r.sort.t = "str"
       /\ r.sort.s \in DOMAIN classes[r.cls].fields
       /\ Declares(desc[classes[r.cls].fields[r.sort.s]].sort, SortDirection_ASC)
    \/ /\ r.sort.t = "list" /\ Len(r.sort.items) = 2
       /\ r.sort.items[2] \in {"asc", "dsc"}
       /\ r.sort.items[1] \in DOMAIN classes[r.cls].fields
       /\ Declares(desc[classes[r.cls].fields[r.sort.items[1]]].sort,
                   IF r.sort.items[2] = "asc" THEN SortDirection_ASC
                   ELSE SortDirection_DESC)

\* The number of conditions the raw filter supplies
Conditions(f) ==
    {p \in (1..Len(f.entries)) \X (1..Len(OpSymbols)) :
        IF f.entries[p[1]][2].t = "dict" THEN p[2] <= Len(f.entries[p[1]][2].entries)
        ELSE p[2] = 1}

\* C5: for a payload without "ids", construction either succeeds with one
\* filter per supplied condition, or fails as a whole with the one
\* RequestValidationError and no query: an unknown field, an unknown
\* operator symbol, a value that cannot be coerced, an unknown sort field or
\* an unsupported sort direction each make it fail.
C5_AllOrNothing ==
    (req.pc # "idle" /\ req.filter.t # "list" /\ ~HasIds(req.filter)
        /\ conint_limit(limit_or_default(req.limit)))
    => IF ValidFilter(req) /\ ValidSort(req)
       THEN req.pc = "built"
            /\ Cardinality(query.filter) = Cardinality(Conditions(req.filter))
       ELSE req.pc = "failed" /\ error.exc = "RequestValidationError"
            /\ query = NoQuery

\* The symbol a JSON string stands for
SymbolOf(v) == IF v.t = "str" /\ Len(v.s) = 1 THEN v.s[1] ELSE "?"

\* The pair a condition supplies: a 2-element JSON list or the one entry of
\* a mapping
IsPair(c) ==
    \/ c.t = "list" /\ Len(c.items) = 2
    \/ c.t = "dict" /\ Len(c.entries) = 1
PairSymbol(c) == IF c.t = "list" THEN SymbolOf(c.items[1]) ELSE c.entries[1][1]
PairValue(c) == IF c.t = "list" THEN c.items[2] ELSE c.entries[1][2]

\* The filter the interface promises for a condition of a text or integer
\* field k; {} when it promises an error
Promised(kind, k, c) ==
    LET op == IF c.t = "scalar" THEN "EQ"
              ELSE IF kind = "QueryField" THEN TextFilterOperation(PairSymbol(c))
              ELSE OrderFilterOperation(PairSymbol(c))
        v == IF c.t = "scalar" THEN c.val ELSE PairValue(c)
    IN  IF op = "" \/ ~Coercible(kind, v) THEN {}
        ELSE IF kind = "QueryField" THEN {TextFilter(k, op, StrV(PyStr(Scalar(v))))}
        ELSE {IntFilter(k, op, parse_obj_as_int(Scalar(v)).val)}

\* C6: parse_value maps its input by shape: a bare scalar to an equality
\* filter with the coerced value, a (symbol, value) pair to the filter of
\* the symbol's operator, a symbol outside the table to an error; and so for
\* a pair that the payload supplies as a 2-element list or as a mapping entry.
C6_ParseByShape ==
    (req.pc # "idle" /\ FilterOnly(req) /\ req.filter.t = "dict"
        /\ Len(req.filter.entries) = 1
        /\ KindOf(req.cls, req.filter.entries[1][1]) \in {"QueryField", "IntQueryField"}
        /\ (req.filter.entries[1][2].t = "scalar" \/ IsPair(req.filter.entries[1][2])))
    => LET k == req.filter.entries[1][1]
           want == Promised(KindOf(req.cls, k), k, req.filter.entries[1][2])
       IN  IF want = {} THEN req.pc = "failed"
           ELSE req.pc = "built" /\ query.filter = want

\* The registry of class c holds the names of all its ancestors and its own,
\* its own declarations first
OwnNames(c) == {classes[c].ns[i][1] : i \in 1..Len(classes[c].ns)}
RegistryMerged(c) ==
    /\ DOMAIN classes[c].fields =
          OwnNames(c) \cup UNION {DOMAIN classes[a].fields : a \in Range(classes[c].mro) \ {c}}
    /\ \A a \in Range(classes[c].mro) : OwnNames(a) \subseteq DOMAIN classes[c].fields
    /\ \A i \in 1..Len(classes[c].ns) :
          classes[c].fields[classes[c].ns[i][1]] = classes[c].ns[i][2]
    /\ \A k \in DOMAIN classes[c].fields \ OwnNames(c) :
          \E b \in Range(classes[c].bases) :
              /\ k \in DOMAIN classes[b].fields
              /\ classes[c].fields[k] = classes[b].fields[k]

\* C7: the registry of every class is the merge of its ancestors'
\* registries with its own descriptors, its own replacing an ancestor's of
\* the same name; the class statement binds each own descriptor to its
\* attribute name; a class that assigns no default sort has a base's.
C7_RegistryMerge ==
    /\ \A c \in 1..Len(classes) :
          /\ RegistryMerged(c)
          /\ (~classes[c].has_ds) =>
                \E b \in Range(classes[c].bases) :
                    default_sort_of(classes, c) = default_sort_of(classes, b)
          /\ (~classes[c].has_ds /\ Len(classes[c].bases) = 1) =>
                default_sort_of(classes, c) = default_sort_of(classes, classes[c].bases[1])
    /\ (last_def.n > 0 /\ last_def.exc = "") =>
          \A i \in 1..Len(last_def.def.ns) :
              /\ classes[Len(classes)].fields[last_def.def.ns[i][1]] = last_def.def.ns[i][2]
              /\ desc[last_def.def.ns[i][2]].name = last_def.def.ns[i][1]

\* A class inherits a name, declares another and replaces a third's
\* descriptor, and inherits its parent's default sort
C7_Witness ==
    \E c \in 1..Len(classes) : \E b \in Range(classes[c].bases) :
        /\ ~classes[c].has_ds /\ ~default_sort_of(classes, c).none
        /\ \E k \in OwnNames(c) \cap DOMAIN classes[b].fields :
               classes[c].fields[k] # classes[b].fields[k]
        /\ DOMAIN classes[c].fields \ OwnNames(c) # {}

CallsOf(op) == {i \in 1..Len(lm.calls) : lm.calls[i].op = op}

\* The page the interface promises: the documents that match, in the
\* store's order for the query's sort, after the records of the earlier
\* pages
PromisedSkip == IF query.page > 1 THEN (query.page - 1) * query.limit ELSE 0
PromisedPage ==
    LET all == Sorted(lm.docs, query.sort)
        last == IF PromisedSkip + query.limit < Len(all) THEN PromisedSkip + query.limit
                ELSE Len(all)
    IN  [i \in 1..(IF last > PromisedSkip THEN last - PromisedSkip ELSE 0) |->
            from_mongo(all[PromisedSkip + i])]

\* C8: list_model pages by 1-based page number: for page > 1 it skips
\* exactly (page - 1) * limit records of the sorted sequence of the matching
\* documents and returns at most the next limit of them, for page 0 or 1 it
\* skips nothing; the items keep the store's order and the result echoes the
\* query's page and limit.
C8_Paging ==
    /\ lm.cursor.opened /\ lm.pc \in {"iter", "returned"} =>
          /\ lm.cursor.skip = PromisedSkip
          /\ lm.cursor.limit = query.limit
          /\ Cardinality(CallsOf("skip")) = IF query.page > 1 THEN 1 ELSE 0
          /\ \A i \in CallsOf("skip") : lm.calls[i].n = (query.page - 1) * query.limit
    /\ lm.pc = "returned" =>
          /\ lm.result.items = PromisedPage
          /\ Len(lm.result.items) <= query.limit
          /\ lm.result.page = query.page
          /\ lm.result.limit = query.limit

\* Page 2 of 20 of a store of more than 20 documents is returned
C8_Witness ==
    /\ lm.pc = "returned" /\ query.page = 2 /\ query.limit = 20
    /\ Len(lm.docs) > 20
    /\ Len(lm.result.items) = Len(lm.docs) - 20
    /\ lm.cursor.skip = 20

\* C10: when with_count is true exactly one count query is issued, with the
\* predicate of the find and nothing else, and it is complete before the
\* find is issued; when with_count is false no count query is issued and the
\* result's count is null; when the count query fails the find is never
\* issued, the error goes to the caller and no page is returned.
C10_CountBeforeFind ==
    /\ Cardinality(CallsOf("count_documents")) <= 1
    /\ \A i \in CallsOf("find") :
          IF query.with_count
          THEN \E j \in CallsOf("count_documents") :
                  /\ j < i /\ lm.calls[j].done
                  /\ lm.calls[j].pred = lm.calls[i].pred
                  /\ lm.count = CountOf(Len(lm.docs))
          ELSE CallsOf("count_documents") = {}
    /\ ~query.with_count =>
          /\ CallsOf("count_documents") = {}
          /\ lm.pc = "returned" => lm.result.count = NoCount
    /\ (query.with_count /\ lm.pc = "returned") =>
          /\ Cardinality(CallsOf("count_documents")) = 1
          /\ lm.result.count = CountOf(Len(lm.docs))
    /\ (\E j \in CallsOf("count_documents") : ~lm.calls[j].done) /\ lm.pc = "raised" =>
          /\ CallsOf("find") = {}
          /\ lm.exc = StoreError
          /\ lm.result = NoResult

\* A page is returned with its count, after a count and a find of a
\* predicate of two constraints
C10_Witness ==
    /\ lm.pc = "returned" /\ query.with_count
    /\ lm.result.count = CountOf(Len(lm.docs)) /\ Len(lm.docs) > 0
    /\ \E i \in CallsOf("find") : Cardinality(lm.calls[i].pred) = 2

\* C11: every cursor list_model opened is closed before list_model returns
\* or raises, whether the body of the try completed or sort, skip, limit,
\* the iteration, the type selector or the materialization of a document
\* raised; the close comes after the find and before the page is returned.
C11_CursorClosed ==
    /\ lm.cursor.opened <=> CallsOf("find") # {}
    /\ Cardinality(CallsOf("find")) <= 1
    /\ lm.cursor.closed <=> CallsOf("close") # {}
    /\ (lm.pc \in {"returned", "raised"} /\ lm.cursor.opened) =>
          /\ lm.cursor.closed
          /\ Cardinality(CallsOf("close")) = 1
          /\ \A i \in CallsOf("close") : i = Len(lm.calls) /\ \A j \in CallsOf("find") : j < i
    /\ ~lm.result.none => lm.cursor.opened /\ lm.cursor.closed

\* list_model raised what the materialization of the second document
\* raised, and the cursor is closed
C11_Witness ==
    /\ lm.pc = "raised" /\ lm.exc = ParseError
    /\ Len(lm.items) = 1
    /\ lm.cursor.opened /\ lm.cursor.closed

\* The distinct non-empty ids the records of the batch reference through
\* the relation r, and the lookups of the call for r
Referenced(r) ==
    {rel.batch[i][Relations[r].id_prop] : i \in 1..Len(rel.batch)} \ {""}
LookupsOf(r) == {k \in 1..Len(rel.lookups) : rel.lookups[k].rel = r}

\* C12: in every call, for each relation, exactly one lookup is issued,
\* whatever the number of records, for exactly the distinct non-empty ids
\* the records of the call's batch reference, and none when there are no
\* such ids; also when the Relation object served an earlier batch.
C12_OneLookupPerBatch ==
    rel.pc = "returned" =>
        \A r \in 1..Len(Relations) :
            IF Referenced(r) = {} THEN LookupsOf(r) = {}
            ELSE /\ Cardinality(LookupsOf(r)) = 1
                 /\ \A k \in LookupsOf(r) : rel.lookups[k].ids = Referenced(r)

\* The record without its targets
Untouched(item) == [name |-> item.name, a_id |-> item.a_id, b_id |-> item.b_id]

\* C13: after a call whose lookups all succeeded, every relation's target
\* is set on every record: to the looked-up object of the record's
\* reference, or to None when the reference is empty or no looked-up object
\* has that id; the records, their order and their other attributes are
\* unchanged.
C13_TargetsInjected ==
    (rel.pc = "returned" /\ \A r \in 1..Len(Relations) : rel.loads[r] = "done") =>
        /\ Len(rel.items) = Len(rel.batch)
        /\ \A i \in 1..Len(rel.batch) :
              /\ Untouched(rel.items[i]) = Untouched(rel.batch[i])
              /\ \A r \in 1..Len(Relations) :
                    rel.items[i][Relations[r].target_prop] =
                        IF rel.batch[i][Relations[r].id_prop] \in rel.found[r]
                        THEN rel.batch[i][Relations[r].id_prop]
                        ELSE "None"

\* C14: when the lookup of a relation fails, the call still returns, the
\* other relations' lookups complete and their results are on every record,
\* and the failed relation's target is not written on any record.
C14_FailedNotInjected ==
    rel.pc = "returned" =>
        \A r \in 1..Len(Relations) : \A i \in 1..Len(rel.batch) :
            rel.loads[r] = "failed" =>
                rel.items[i][Relations[r].target_prop]
                    = rel.batch[i][Relations[r].target_prop]

\* C15: from_mongo(to_mongo(mapping)) has the keys and the values of the
\* mapping at every level, nested 'id' keys, enums, decimals, durations,
\* times and sets included; only the top-level 'id' is dropped by to_mongo
\* and restored by from_mongo from the store's '_id'.
C15_RoundTrip ==
    rt.pc = "back" =>
        /\ DOMAIN rt.back.d = DOMAIN rt.data.d \cup {"id"}
        /\ rt.back.d["id"] = rt.doc.d["_id"]
        /\ \A k \in DOMAIN rt.data.d \ {"id"} : rt.back.d[k] = rt.data.d[k]

\* C16: after any sequence of class statements and query constructions the
\* registry of every class defined maps each name k to a descriptor whose
\* bound name is k, and a filter parsed for the key k carries field = k:
\* defining another class, also one that declares the same descriptor under
\* another name, changes no name bound in a class defined before.
C16_RegistryConsistent ==
    /\ \A c \in 1..Len(classes) : \A k \in DOMAIN classes[c].fields :
          desc[classes[c].fields[k]].name = k
    /\ (req.pc = "built" /\ req.filter.t = "dict") =>
          \A f \in query.filter : f.field = req.filter.entries[1][1]

====
